---- MODULE Spec2Model ----
(***************************************************************************)
(* ShortcutManager (src/src/app/components/shortcut-manager.tsx): the      *)
(* shortcut collection with its localStorage persistence, the lookup of    *)
(* the test field, and the Ctrl+B bold toggle of the content textarea.     *)
(*                                                                         *)
(* A JavaScript string is a sequence of one-character strings.  The React  *)
(* component is a state machine over its useState cells; pc is the place   *)
(* of React's work loop: the mount-time effects, a pending re-render, the  *)
(* save effect that follows a render with a new `shortcuts`, or idle       *)
(* (waiting for the next event or timer).                                  *)
(***************************************************************************)
EXTENDS Integers, Sequences, FiniteSets, TLC

VARIABLES
    pc,              \* "loadEffect" | "saveEffect" | "render" | "idle" | "crashed"
    shortcuts,       \* useState<Shortcut[]>: the committed value (a JS value)
    queued,          \* the setShortcuts update waiting for the next render
    storage,         \* localStorage["shortcuts"]
    shortcutName,    \* useState("")
    shortcutContent, \* useState("")
    testInput,       \* useState("")
    testOutput,      \* useState("")
    message,         \* useState<{type, text} | null>(null)
    msgTimers,       \* pending setTimeout(() => setMessage(null), ...)
    textarea,        \* the DOM textarea: value, selectionStart, selectionEnd
    caretTimers,     \* pending setTimeout(() => { selectionStart = ... }, 0)
    lastWrite,       \* history: "none" | "ok" | "failed", the last localStorage.setItem
    lastOp,          \* history: the last user operation and its outcome
    lastSave,        \* history: the last successful save, until the next mutation
    lastToggle,      \* history: the input and result of the last bold toggle
    boot             \* history: the kind of value the mount found, until the user's first mutation

vars == <<pc, shortcuts, queued, storage, shortcutName, shortcutContent,
          testInput, testOutput, message, msgTimers, textarea, caretTimers,
          lastWrite, lastOp, lastSave, lastToggle, boot>>

editorVars == <<textarea, caretTimers, lastToggle>>
testVars == <<testInput, testOutput>>

----------------------------------------------------------------------------
(* Bounds of the model                                                     *)

\* pending message timers the model keeps track of
MaxTimers == 1
\* longest textarea content the bold-toggle specification starts from
MaxLen == 3
\* pending caret timers the model keeps track of
MaxCaretTimers == 1

----------------------------------------------------------------------------
(* Strings                                                                 *)

EmptyStr == <<>>

IsSpace(c) == c = " "

RECURSIVE TrimStart(_)
TrimStart(s) ==
    IF s = <<>> THEN s
    ELSE IF IsSpace(Head(s)) THEN TrimStart(Tail(s)) ELSE s

RECURSIVE TrimEnd(_)
TrimEnd(s) ==
    IF s = <<>> THEN s
    ELSE IF IsSpace(s[Len(s)]) THEN TrimEnd(SubSeq(s, 1, Len(s) - 1)) ELSE s

\* String.prototype.trim
Trim(s) == TrimEnd(TrimStart(s))

Clamp(i, n) == IF i < 0 THEN 0 ELSE IF i > n THEN n ELSE i

\* String.prototype.substring(a, b): both indices are clamped to [0, length]
\* and swapped when a > b
Substring(s, a, b) ==
    LET ca == Clamp(a, Len(s))
        cb == Clamp(b, Len(s))
        lo == IF ca <= cb THEN ca ELSE cb
        hi == IF ca <= cb THEN cb ELSE ca
    IN  SubSeq(s, lo + 1, hi)

\* String.prototype.substring(a)
SubstringFrom(s, a) == Substring(s, a, Len(s))

StartsWith(s, p) == Len(s) >= Len(p) /\ SubSeq(s, 1, Len(p)) = p

EndsWith(s, p) == Len(s) >= Len(p) /\ SubSeq(s, Len(s) - Len(p) + 1, Len(s)) = p

\* a JS string used as a condition: "" is falsy
Truthy(s) == s # <<>>

Marker == <<"*", "*">>

----------------------------------------------------------------------------
(* JavaScript values held by `shortcuts`, and their JSON text              *)

Shortcut(n, c) == [name |-> n, content |-> c]

JsArray(items) == [kind |-> "array", items |-> items]
JsNull == [kind |-> "null", items |-> <<>>]
JsObject == [kind |-> "object", items |-> <<>>]

\* JSON text is a sequence of tokens (lexing is not modelled)
Tok(t) == [t |-> t, s |-> <<>>]
StrTok(s) == [t |-> "str", s |-> s]

RECURSIVE StringifyItems(_)
StringifyItems(items) ==
    IF items = <<>> THEN <<>>
    ELSE <<Tok("{"), Tok("name:"), StrTok(Head(items).name),
           Tok("content:"), StrTok(Head(items).content), Tok("}")>>
         \o StringifyItems(Tail(items))

JSONstringify(v) ==
    CASE v.kind = "array" -> <<Tok("[")>> \o StringifyItems(v.items) \o <<Tok("]")>>
      [] v.kind = "null" -> <<Tok("null")>>
      [] OTHER -> <<Tok("{"), Tok("}")>>

\* the records between the brackets of an array: [ok, items]
RECURSIVE ParseItems(_)
ParseItems(toks) ==
    IF toks = <<>> THEN [ok |-> TRUE, items |-> <<>>]
    ELSE IF /\ Len(toks) >= 6
            /\ toks[1] = Tok("{")
            /\ toks[2] = Tok("name:")
            /\ toks[3].t = "str"
            /\ toks[4] = Tok("content:")
            /\ toks[5].t = "str"
            /\ toks[6] = Tok("}")
         THEN LET rest == ParseItems(SubSeq(toks, 7, Len(toks)))
              IN  [ok |-> rest.ok,
                   items |-> <<Shortcut(toks[3].s, toks[5].s)>> \o rest.items]
         ELSE [ok |-> FALSE, items |-> <<>>]

\* JSON.parse: ok = FALSE stands for the SyntaxError it throws
JSONparse(text) ==
    IF text = <<Tok("null")>> THEN [ok |-> TRUE, value |-> JsNull]
    ELSE IF text = <<Tok("{"), Tok("}")>> THEN [ok |-> TRUE, value |-> JsObject]
    ELSE IF Len(text) >= 2 /\ text[1] = Tok("[") /\ text[Len(text)] = Tok("]")
         THEN LET r == ParseItems(SubSeq(text, 2, Len(text) - 1))
              IN  [ok |-> r.ok, value |-> JsArray(r.items)]
         ELSE [ok |-> FALSE, value |-> JsNull]

\* localStorage.getItem: null (absent) or a string
Absent == [present |-> FALSE, text |-> <<>>]
Stored(text) == [present |-> TRUE, text |-> text]

\* what a mount finds under the key: nothing, the empty string, text that
\* JSON.parse rejects, JSON that is no array, or an array of shortcuts
StorageKind(st) ==
    IF ~st.present THEN "absent"
    ELSE IF st.text = <<>> THEN "empty"
    ELSE IF ~JSONparse(st.text).ok THEN "unparsable"
    ELSE IF JSONparse(st.text).value.kind # "array" THEN "nonarray"
    ELSE "array"

----------------------------------------------------------------------------
(* Inputs of the model                                                     *)

\* "Shortcut does not exist yet"
NotFoundText ==
    <<"S", "h", "o", "r", "t", "c", "u", "t", " ", "d", "o", "e", "s", " ",
      "n", "o", "t", " ", "e", "x", "i", "s", "t", " ", "y", "e", "t">>

\* what the user types into the name field: one name is a prefix of the other
NameInputs == {<<" ">>, <<" ", "a", " ">>, <<"a", "b">>}

\* what the user types into the content textarea: one content is the text
\* the test output shows for a missing shortcut
ContentInputs == {<<" ">>, NotFoundText, <<"y", " ">>}

\* what the user types into the test field
TestInputs == {<<"a">>, <<" ", "a", "b">>}

\* what localStorage may hold before the first mount: nothing, the empty
\* string, text that is no JSON, and JSON that is no array
Garbage == <<Tok("{")>>
InitialStorage ==
    {Absent, Stored(<<>>), Stored(Garbage),
     Stored(JSONstringify(JsNull)), Stored(JSONstringify(JsObject))}

----------------------------------------------------------------------------
(* The component's state                                                   *)

NoMessage == [type |-> "none", text |-> "", arg |-> <<>>]
Msg(type, text, arg) == [type |-> type, text |-> text, arg |-> arg]

RequiredText == "Both shortcut name and content are required."
LoadFailedText == "Failed to load saved shortcuts."
SaveFailedText == "Failed to save shortcuts."
UpdatedText == "Shortcut '${name}' updated!"
SavedText == "Shortcut '${name}' saved correctly!"
ClearedText == "All shortcuts cleared."

NoUpdate == [op |-> "none", val |-> JsArray(<<>>)]
\* setShortcuts(value)
SetUpdate(v) == [op |-> "set", val |-> v]
\* setShortcuts((prev) => [...prev, item])
AppendUpdate(item) == [op |-> "append", val |-> JsArray(<<item>>)]

\* the state a queued update produces at the next render
ApplyUpdate(prev, u) ==
    CASE u.op = "set" -> u.val
      [] u.op = "append" -> JsArray(prev.items \o u.val.items)
      [] OTHER -> prev

Textarea(v, s, e) == [value |-> v, selectionStart |-> s, selectionEnd |-> e]

NoOp == [op |-> "none", outcome |-> "none"]
Op(op, outcome) == [op |-> op, outcome |-> outcome]

NoSave == [valid |-> FALSE, name |-> <<>>, content |-> <<>>]
NoFirst == [done |-> FALSE, text |-> <<>>, start |-> 0, end |-> 0]
NoToggle ==
    [done |-> FALSE, text |-> <<>>, start |-> 0, end |-> 0,
     newContent |-> <<>>, newCursorPos |-> 0, first |-> NoFirst]

\* the state of a freshly constructed component over the given storage
Mounted(st) ==
    /\ pc = "loadEffect"
    /\ shortcuts = JsArray(<<>>)
    /\ queued = NoUpdate
    /\ storage = st
    /\ shortcutName = EmptyStr
    /\ shortcutContent = EmptyStr
    /\ testInput = EmptyStr
    /\ testOutput = EmptyStr
    /\ message = NoMessage
    /\ msgTimers = 0
    /\ textarea = Textarea(EmptyStr, 0, 0)
    /\ caretTimers = <<>>
    /\ lastWrite = "none"
    /\ lastOp = NoOp
    /\ lastSave = NoSave
    /\ lastToggle = NoToggle
    /\ boot = StorageKind(st)

Init == \E st \in InitialStorage : Mounted(st)

----------------------------------------------------------------------------
(* Mount, render and effects                                               *)

\* useEffect(() => {...}, []): load shortcuts from localStorage on mount
LoadEffect ==
    /\ pc = "loadEffect"
    /\ pc' = "saveEffect"
    /\ IF storage.present /\ Truthy(storage.text)
       THEN LET r == JSONparse(storage.text)
            IN  IF r.ok
                THEN queued' = SetUpdate(r.value) /\ UNCHANGED message
                ELSE /\ message' = Msg("error", LoadFailedText, <<>>)
                     /\ UNCHANGED queued
       ELSE UNCHANGED <<queued, message>>
    /\ UNCHANGED <<shortcuts, storage, shortcutName, shortcutContent, testVars,
                   msgTimers, editorVars, lastWrite, lastOp, lastSave, boot>>

\* where the work loop goes after the effects of a render have run
AfterEffects == IF queued.op # "none" THEN "render" ELSE "idle"

\* useEffect(() => {...}, [shortcuts]): localStorage.setItem succeeds
SaveEffectOk ==
    /\ pc = "saveEffect"
    /\ storage' = Stored(JSONstringify(shortcuts))
    /\ lastWrite' = "ok"
    /\ pc' = AfterEffects
    /\ UNCHANGED <<shortcuts, queued, shortcutName, shortcutContent, testVars,
                   message, msgTimers, editorVars, lastOp, lastSave, boot>>

\* a save effect without the try/catch: the exception of setItem surfaces
SaveEffectFail_Uncaught ==
    /\ pc = "saveEffect"
    /\ lastWrite' = "failed"
    /\ pc' = "crashed"
    /\ UNCHANGED <<shortcuts, queued, storage, shortcutName, shortcutContent,
                   testVars, message, msgTimers, editorVars, lastOp, lastSave, boot>>

\* useEffect(() => {...}, [shortcuts]): localStorage.setItem throws
SaveEffectFail ==
    /\ pc = "saveEffect"
    /\ message' = Msg("error", SaveFailedText, <<>>)
    /\ lastWrite' = "failed"
    /\ pc' = AfterEffects
    /\ UNCHANGED <<shortcuts, queued, storage, shortcutName, shortcutContent,
                   testVars, msgTimers, editorVars, lastOp, lastSave, boot>>

SaveEffect == SaveEffectOk \/ SaveEffectFail

\* the value React writes to the controlled textarea at commit: assigning a
\* different value moves the caret to its end
CommitTextarea(ta, content) ==
    IF ta.value = content THEN ta
    ELSE Textarea(content, Len(content), Len(content))

\* `shortcuts.length > 0` of the render: reading .length of null throws
RenderThrows(v) == v.kind = "null"

\* a save effect with the dependency list []: it runs after the mount only
EffectScheduled_Never(u) == FALSE

\* the dependency list [shortcuts] of the save effect: it runs after every
\* render whose `shortcuts` is a new value
EffectScheduled(u) == u.op # "none"

\* a re-render: the queued update becomes the state, the DOM is committed,
\* and a new `shortcuts` schedules the save effect
Render ==
    /\ pc = "render"
    /\ shortcuts' = ApplyUpdate(shortcuts, queued)
    /\ queued' = NoUpdate
    /\ textarea' = CommitTextarea(textarea, shortcutContent)
    /\ pc' = IF RenderThrows(shortcuts') THEN "crashed"
             ELSE IF EffectScheduled(queued) THEN "saveEffect" ELSE "idle"
    /\ UNCHANGED <<storage, shortcutName, shortcutContent, testVars, message,
                   msgTimers, caretTimers, lastWrite, lastOp, lastSave,
                   lastToggle, boot>>

\* the page is closed and opened again: a new component over the same storage
Reload ==
    /\ pc' = "loadEffect"
    /\ shortcuts' = JsArray(<<>>)
    /\ queued' = NoUpdate
    /\ shortcutName' = EmptyStr
    /\ shortcutContent' = EmptyStr
    /\ testInput' = EmptyStr
    /\ testOutput' = EmptyStr
    /\ message' = NoMessage
    /\ msgTimers' = 0
    /\ textarea' = Textarea(EmptyStr, 0, 0)
    /\ caretTimers' = <<>>
    /\ lastWrite' = "none"
    /\ lastOp' = NoOp
    /\ lastSave' = NoSave
    /\ lastToggle' = NoToggle
    /\ boot' = StorageKind(storage)
    /\ UNCHANGED storage

----------------------------------------------------------------------------
(* The shortcut collection                                                 *)

\* Array.prototype.findIndex((s) => s.name === key): 0-based, -1 when absent
FindIndex(items, key) ==
    LET hits == {i \in 1..Len(items) : items[i].name = key}
    IN  IF hits = {} THEN -1
        ELSE (CHOOSE i \in hits : \A j \in hits : i <= j) - 1

\* a validation that forgets to trim
SaveAllowed_NoTrim(name, content) == Truthy(name) /\ Truthy(content)

\* the guard of handleSaveShortcut: both trimmed fields are non-empty
SaveAllowed(name, content) == Truthy(Trim(name)) /\ Truthy(Trim(content))

\* a save that keys the shortcut by the field as typed
SaveKey_Raw(name) == name

\* the key a shortcut is stored and searched under
SaveKey(name) == Trim(name)

\* a save that stores the trimmed content
SaveContent_Trimmed(content) == Trim(content)

\* the content a shortcut is stored with
SaveContent(content) == content

\* a save without the update branch: every save appends
SaveUpdate_AlwaysAppend(items, name, content) ==
    AppendUpdate(Shortcut(SaveKey(name), SaveContent(content)))

\* a save that removes the entry of an existing name and appends the new one
SaveUpdate_MoveToEnd(items, name, content) ==
    LET entry == Shortcut(SaveKey(name), SaveContent(content))
        keep == SelectSeq(items, LAMBDA it : it.name # SaveKey(name))
    IN  SetUpdate(JsArray(Append(keep, entry)))

\* the setShortcuts call of handleSaveShortcut: replace in place, or append
SaveUpdate(items, name, content) ==
    LET idx == FindIndex(items, SaveKey(name))
        entry == Shortcut(SaveKey(name), SaveContent(content))
    IN  IF idx # -1
        THEN SetUpdate(JsArray([items EXCEPT ![idx + 1] = entry]))
        ELSE AppendUpdate(entry)

\* a lookup under the query as typed
LookupKey_Raw(input) == input

\* the key the test field is searched under
LookupKey(input) == Trim(input)

\* a lookup that takes the first shortcut whose name starts with the key
LookupResult_Prefix(items, input) ==
    LET hits == {i \in 1..Len(items) : StartsWith(items[i].name, LookupKey(input))}
    IN  IF hits = {} THEN NotFoundText
        ELSE items[CHOOSE i \in hits : \A j \in hits : i <= j].content

\* shortcuts.find((s) => s.name === key), then the content or the fixed text
LookupResult(items, input) ==
    LET idx == FindIndex(items, LookupKey(input))
    IN  IF idx # -1 THEN items[idx + 1].content ELSE NotFoundText

\* array methods (findIndex, find) exist on arrays only
IsArray(v) == v.kind = "array"

\* the clear button is rendered when shortcuts.length > 0
ClearButtonShown(v) == IsArray(v) /\ Len(v.items) > 0

----------------------------------------------------------------------------
(* Event handlers                                                          *)

\* onChange of the name field
SetShortcutName(n) ==
    /\ pc = "idle"
    /\ shortcutName' = n
    /\ UNCHANGED <<pc, shortcuts, queued, storage, shortcutContent, testVars,
                   message, msgTimers, editorVars, lastWrite, lastOp, lastSave,
                   boot>>

\* onChange of the content textarea: the user's edit is in the DOM already
SetShortcutContent(c) ==
    /\ pc = "idle"
    /\ shortcutContent' = c
    /\ textarea' = Textarea(c, Len(c), Len(c))
    /\ UNCHANGED <<pc, shortcuts, queued, storage, shortcutName, testVars,
                   message, msgTimers, caretTimers, lastToggle, lastWrite,
                   lastOp, lastSave, boot>>

\* handleSaveShortcut, the validation failure: a message and nothing else
SaveRejected ==
    /\ pc = "idle"
    /\ ~SaveAllowed(shortcutName, shortcutContent)
    /\ message' = Msg("error", RequiredText, <<>>)
    /\ lastOp' = Op("save", "rejected")
    /\ UNCHANGED <<pc, shortcuts, queued, storage, shortcutName, shortcutContent,
                   testVars, msgTimers, editorVars, lastWrite, lastSave, boot>>

\* handleSaveShortcut over a `shortcuts` that is no array: findIndex is not
\* a function, the TypeError leaves the handler before any state is set
SaveThrows ==
    /\ pc = "idle"
    /\ SaveAllowed(shortcutName, shortcutContent)
    /\ ~IsArray(shortcuts)
    /\ lastOp' = Op("save", "threw")
    /\ UNCHANGED <<pc, shortcuts, queued, storage, shortcutName, shortcutContent,
                   testVars, message, msgTimers, editorVars, lastWrite, lastSave,
                   boot>>

\* handleSaveShortcut, update or add
SaveAccepted ==
    /\ pc = "idle"
    /\ SaveAllowed(shortcutName, shortcutContent)
    /\ IsArray(shortcuts)
    /\ msgTimers < MaxTimers
    /\ LET u == SaveUpdate(shortcuts.items, shortcutName, shortcutContent)
       IN  /\ queued' = u
           /\ message' = Msg("success",
                             IF u.op = "set" THEN UpdatedText ELSE SavedText,
                             Trim(shortcutName))
           /\ lastOp' = Op("save", IF u.op = "set" THEN "updated" ELSE "created")
    /\ shortcutName' = EmptyStr
    /\ shortcutContent' = EmptyStr
    /\ msgTimers' = msgTimers + 1
    /\ lastSave' = [valid |-> TRUE, name |-> shortcutName, content |-> shortcutContent]
    /\ boot' = "mutated"
    /\ pc' = "render"
    /\ UNCHANGED <<shortcuts, storage, testVars, editorVars, lastWrite>>

HandleSaveShortcut == SaveRejected \/ SaveThrows \/ SaveAccepted

\* handleTestInputChange over an array
LookupDone(input) ==
    /\ pc = "idle"
    /\ IsArray(shortcuts)
    /\ testInput' = input
    /\ testOutput' = LookupResult(shortcuts.items, input)
    /\ lastOp' = Op("lookup", IF FindIndex(shortcuts.items, LookupKey(input)) # -1
                              THEN "found" ELSE "notfound")
    /\ UNCHANGED <<pc, shortcuts, queued, storage, shortcutName, shortcutContent,
                   message, msgTimers, editorVars, lastWrite, lastSave, boot>>

\* handleTestInputChange over a `shortcuts` that is no array: setTestInput
\* has been called when shortcuts.find throws
LookupThrows(input) ==
    /\ pc = "idle"
    /\ ~IsArray(shortcuts)
    /\ testInput' = input
    /\ lastOp' = Op("lookup", "threw")
    /\ UNCHANGED <<pc, shortcuts, queued, storage, shortcutName, shortcutContent,
                   testOutput, message, msgTimers, editorVars, lastWrite,
                   lastSave, boot>>

HandleTestInputChange(input) == LookupDone(input) \/ LookupThrows(input)

\* a clear that forgets setShortcuts([])
ClearAccepted_KeepsCollection ==
    /\ pc = "idle"
    /\ ClearButtonShown(shortcuts)
    /\ msgTimers < MaxTimers
    /\ testOutput' = EmptyStr
    /\ message' = Msg("success", ClearedText, <<>>)
    /\ msgTimers' = msgTimers + 1
    /\ lastOp' = Op("clear", "cleared")
    /\ lastSave' = NoSave
    /\ boot' = "mutated"
    /\ pc' = "render"
    /\ UNCHANGED <<shortcuts, queued, storage, shortcutName, shortcutContent,
                   testInput, editorVars, lastWrite>>

\* handleClearAllShortcuts, confirm() answered with OK
ClearAccepted ==
    /\ pc = "idle"
    /\ ClearButtonShown(shortcuts)
    /\ msgTimers < MaxTimers
    /\ queued' = SetUpdate(JsArray(<<>>))
    /\ testOutput' = EmptyStr
    /\ message' = Msg("success", ClearedText, <<>>)
    /\ msgTimers' = msgTimers + 1
    /\ lastOp' = Op("clear", "cleared")
    /\ lastSave' = NoSave
    /\ boot' = "mutated"
    /\ pc' = "render"
    /\ UNCHANGED <<shortcuts, storage, shortcutName, shortcutContent, testInput,
                   editorVars, lastWrite>>

\* a clear that does not look at the answer of confirm()
ClearDeclined_Ignored ==
    /\ pc = "idle"
    /\ ClearButtonShown(shortcuts)
    /\ queued' = SetUpdate(JsArray(<<>>))
    /\ testOutput' = EmptyStr
    /\ lastOp' = Op("clear", "declined")
    /\ pc' = "render"
    /\ UNCHANGED <<shortcuts, storage, shortcutName, shortcutContent, testInput,
                   message, msgTimers, editorVars, lastWrite, lastSave, boot>>

\* handleClearAllShortcuts, confirm() answered with Cancel
ClearDeclined ==
    /\ pc = "idle"
    /\ ClearButtonShown(shortcuts)
    /\ lastOp' = Op("clear", "declined")
    /\ UNCHANGED <<pc, shortcuts, queued, storage, shortcutName, shortcutContent,
                   testVars, message, msgTimers, editorVars, lastWrite, lastSave,
                   boot>>

HandleClearAllShortcuts == ClearAccepted \/ ClearDeclined

\* setTimeout(() => setMessage(null), ...)
MessageTimer ==
    /\ pc = "idle"
    /\ msgTimers > 0
    /\ msgTimers' = msgTimers - 1
    /\ message' = NoMessage
    /\ UNCHANGED <<pc, shortcuts, queued, storage, shortcutName, shortcutContent,
                   testVars, editorVars, lastWrite, lastOp, lastSave, boot>>

----------------------------------------------------------------------------
(* The shortcut store: mount, typing, save, lookup, clear, reload.  The     *)
(* content is typed as a whole; the bold toggle has its own specification, *)
(* SpecEditor, over the same handlers' render.                             *)

Next ==
    \/ LoadEffect
    \/ SaveEffect
    \/ Render
    \/ Reload
    \/ \E n \in NameInputs : SetShortcutName(n)
    \/ \E c \in ContentInputs : SetShortcutContent(c)
    \/ HandleSaveShortcut
    \/ \E q \in TestInputs : HandleTestInputChange(q)
    \/ HandleClearAllShortcuts
    \/ MessageTimer

Spec == Init /\ [][Next]_vars

----------------------------------------------------------------------------
(* The bold toggle of the content textarea                                 *)

\* the test of line 150: the selection starts and ends with the marker
IsBold(selectedText) ==
    StartsWith(selectedText, Marker) /\ EndsWith(selectedText, Marker)

\* a "remove bold" branch that strips the markers and leaves the caret where
\* the selection ended
RemoveBold_CaretAtEnd(text, start, end) ==
    LET selectedText == Substring(text, start, end)
    IN  [newContent |-> Substring(text, 0, start)
                        \o Substring(selectedText, 2, Len(selectedText) - 2)
                        \o SubstringFrom(text, end),
         newCursorPos |-> start + Len(selectedText)]

\* the new content and caret of the "remove bold" branch
RemoveBold(text, start, end) ==
    LET selectedText == Substring(text, start, end)
    IN  [newContent |-> Substring(text, 0, start)
                        \o Substring(selectedText, 2, Len(selectedText) - 2)
                        \o SubstringFrom(text, end),
         newCursorPos |-> start + Len(selectedText) - 4]

\* the new content and caret of the "add bold" branch
AddBold(text, start, end) ==
    LET selectedText == Substring(text, start, end)
    IN  [newContent |-> Substring(text, 0, start)
                        \o Marker \o selectedText \o Marker
                        \o SubstringFrom(text, end),
         newCursorPos |-> start + Len(selectedText) + 2]

\* what handleKeyDown computes for Ctrl+B / Cmd+B
BoldToggle(text, start, end) ==
    IF IsBold(Substring(text, start, end))
    THEN RemoveBold(text, start, end)
    ELSE AddBold(text, start, end)

\* an index assigned to selectionStart / selectionEnd: an unsigned long that
\* the textarea clamps to the length of its value
DomIndex(p, len) == IF p < 0 \/ p > len THEN len ELSE p

\* the selection [start, end + 4) over the result of the toggle t: the span
\* a toggle of [start, end) has wrapped
SelectsToggled(t, s, e) ==
    t.done /\ s = t.start /\ e = t.end + 2 * Len(Marker)

\* the user moves the caret or selects a range of the textarea; the history
\* of the last toggle is kept while its wrapped span is selected
SelectRange(s, e) ==
    /\ pc = "idle"
    /\ s <= e /\ e <= Len(textarea.value)
    /\ textarea' = Textarea(textarea.value, s, e)
    /\ lastToggle' = IF SelectsToggled(lastToggle, s, e) THEN lastToggle ELSE NoToggle
    /\ UNCHANGED <<pc, shortcuts, queued, storage, shortcutName, shortcutContent,
                   testVars, message, msgTimers, caretTimers, lastWrite, lastOp,
                   lastSave, boot>>

\* handleKeyDown with (ctrlKey || metaKey) && key === "b"
HandleKeyDown ==
    /\ pc = "idle"
    /\ Len(caretTimers) < MaxCaretTimers
    /\ LET start == textarea.selectionStart
           end == textarea.selectionEnd
           r == BoldToggle(shortcutContent, start, end)
       IN  /\ Len(r.newContent) <= MaxLen + 2 * Len(Marker)
           /\ shortcutContent' = r.newContent
           /\ caretTimers' = Append(caretTimers, r.newCursorPos)
           /\ lastToggle' = [done |-> TRUE, text |-> shortcutContent,
                             start |-> start, end |-> end,
                             newContent |-> r.newContent,
                             newCursorPos |-> r.newCursorPos,
                             first |-> IF /\ SelectsToggled(lastToggle, start, end)
                                          /\ shortcutContent = lastToggle.newContent
                                       THEN [done |-> TRUE,
                                             text |-> lastToggle.text,
                                             start |-> lastToggle.start,
                                             end |-> lastToggle.end]
                                       ELSE NoFirst]
    /\ pc' = "render"
    /\ UNCHANGED <<shortcuts, queued, storage, shortcutName, testVars, message,
                   msgTimers, textarea, lastWrite, lastOp, lastSave, boot>>

\* a caret assignment made in the handler itself, before the re-render
CaretTimer_Immediate ==
    /\ pc \in {"idle", "render"}
    /\ caretTimers # <<>>
    /\ LET p == DomIndex(Head(caretTimers), Len(textarea.value))
       IN  textarea' = Textarea(textarea.value, p, p)
    /\ caretTimers' = Tail(caretTimers)
    /\ UNCHANGED <<pc, shortcuts, queued, storage, shortcutName, shortcutContent,
                   testVars, message, msgTimers, lastWrite, lastOp, lastSave,
                   lastToggle, boot>>

\* setTimeout(() => { textarea.selectionStart = textarea.selectionEnd = newCursorPos }, 0)
CaretTimer ==
    /\ pc = "idle"
    /\ caretTimers # <<>>
    /\ LET p == DomIndex(Head(caretTimers), Len(textarea.value))
       IN  textarea' = Textarea(textarea.value, p, p)
    /\ caretTimers' = Tail(caretTimers)
    /\ UNCHANGED <<pc, shortcuts, queued, storage, shortcutName, shortcutContent,
                   testVars, message, msgTimers, lastWrite, lastOp, lastSave,
                   lastToggle, boot>>

\* the characters typed into the textarea of the bold-toggle specification
EditorChars == {"*", "a"}

EditorTexts == UNION {[1..k -> EditorChars] : k \in 0..MaxLen}

\* the component, mounted over an empty storage and idle, with a content
\* typed by the user and any selection of it
InitEditor ==
    /\ pc = "idle"
    /\ shortcuts = JsArray(<<>>)
    /\ queued = NoUpdate
    /\ storage = Stored(JSONstringify(JsArray(<<>>)))
    /\ shortcutName = EmptyStr
    /\ shortcutContent \in EditorTexts
    /\ testInput = EmptyStr
    /\ testOutput = EmptyStr
    /\ message = NoMessage
    /\ msgTimers = 0
    /\ \E s \in 0..Len(shortcutContent) : \E e \in s..Len(shortcutContent) :
           textarea = Textarea(shortcutContent, s, e)
    /\ caretTimers = <<>>
    /\ lastWrite = "ok"
    /\ lastOp = NoOp
    /\ lastSave = NoSave
    /\ lastToggle = NoToggle
    /\ boot = "absent"

NextEditor ==
    \/ \E s \in 0..(MaxLen + 2 * Len(Marker)) :
         \E e \in 0..(MaxLen + 2 * Len(Marker)) : SelectRange(s, e)
    \/ HandleKeyDown
    \/ Render
    \/ CaretTimer

SpecEditor == InitEditor /\ [][NextEditor]_vars

----------------------------------------------------------------------------
(* Properties                                                              *)

UniqueNames(items) ==
    \A i, j \in 1..Len(items) : items[i].name = items[j].name => i = j

TrimmedNames(items) ==
    \A i \in 1..Len(items) : items[i].name = Trim(items[i].name)

\* the indices of the entries stored under a name
IndicesOf(items, name) == {i \in 1..Len(items) : items[i].name = name}

\* C1: after a successful save of (name, content), with no mutation since, a
\* lookup whose trimmed query is trim(name) shows exactly the content that
\* was entered, untrimmed.
C1_SaveThenLookup ==
    ( /\ lastOp.op = "lookup"
      /\ lastSave.valid
      /\ Trim(testInput) = Trim(lastSave.name) )
    => testOutput = lastSave.content

\* a lookup by trim(name) after a save whose name and content both carried
\* whitespace
C1_Witness ==
    /\ lastOp.op = "lookup"
    /\ lastSave.valid
    /\ lastSave.name # Trim(lastSave.name)
    /\ lastSave.content # Trim(lastSave.content)
    /\ testInput = Trim(lastSave.name)
    /\ testOutput = lastSave.content

\* C2: in every reachable state the names of the collection are pairwise
\* different and each equals its own trimmed form (also for the update that
\* waits for the next render).
C2_UniqueTrimmedNames ==
    /\ IsArray(shortcuts) =>
         UniqueNames(shortcuts.items) /\ TrimmedNames(shortcuts.items)
    /\ IsArray(ApplyUpdate(shortcuts, queued)) =>
         /\ UniqueNames(ApplyUpdate(shortcuts, queued).items)
         /\ TrimmedNames(ApplyUpdate(shortcuts, queued).items)

\* two entries, one of them saved from a name with whitespace around it and
\* saved again, loaded back from storage after a reload
C2_Witness ==
    /\ pc = "idle"
    /\ boot = "array"
    /\ IsArray(shortcuts)
    /\ Len(shortcuts.items) = 2
    /\ IndicesOf(shortcuts.items, <<"a">>) # {}

\* C3: the render that commits a save of a name the collection already
\* holds keeps the length, leaves exactly one entry with that name, at the
\* index it had, and that entry holds the content of this save.
C3_SecondSaveInPlace ==
    [][ ( /\ pc = "render"
          /\ pc' # "loadEffect"
          /\ lastOp.op = "save"
          /\ lastSave.valid
          /\ IsArray(shortcuts)
          /\ IndicesOf(shortcuts.items, Trim(lastSave.name)) # {} )
        => /\ IsArray(shortcuts')
           /\ Len(shortcuts'.items) = Len(shortcuts.items)
           /\ IndicesOf(shortcuts'.items, Trim(lastSave.name))
                = IndicesOf(shortcuts.items, Trim(lastSave.name))
           /\ Cardinality(IndicesOf(shortcuts'.items, Trim(lastSave.name))) = 1
           /\ \A i \in IndicesOf(shortcuts'.items, Trim(lastSave.name)) :
                shortcuts'.items[i].content = lastSave.content
      ]_vars

\* a second save of the first of two names, with another content, committed
C3_Witness ==
    /\ pc = "saveEffect"
    /\ lastOp = Op("save", "updated")
    /\ Len(shortcuts.items) = 2
    /\ shortcuts.items[1] = Shortcut(Trim(lastSave.name), lastSave.content)
    /\ JSONparse(storage.text).ok
    /\ Len(JSONparse(storage.text).value.items) = 2
    /\ JSONparse(storage.text).value.items[1].name = shortcuts.items[1].name
    /\ JSONparse(storage.text).value.items[1].content # lastSave.content

\* C4: a save attempt with an empty trimmed name or an empty trimmed content
\* ends with the error message and changes neither the collection, nor a
\* queued update, nor the storage, and schedules no render or effect.
C4_RejectedSaveChangesNothing ==
    [][ ( /\ HandleSaveShortcut
          /\ (Trim(shortcutName) = <<>> \/ Trim(shortcutContent) = <<>>) )
        => /\ shortcuts' = shortcuts
           /\ queued' = queued
           /\ storage' = storage
           /\ pc' = pc
           /\ message' = Msg("error", RequiredText, <<>>)
      ]_vars

\* a rejected save of a name with a content of whitespace only, over a
\* collection that holds a shortcut
C4_Witness ==
    /\ lastOp = Op("save", "rejected")
    /\ Trim(shortcutName) # <<>>
    /\ shortcutContent # <<>>
    /\ Trim(shortcutContent) = <<>>
    /\ IsArray(shortcuts)
    /\ Len(shortcuts.items) > 0
    /\ message = Msg("error", RequiredText, <<>>)

\* the kinds of persisted value that are absent or no array of shortcuts
CorruptKinds == {"absent", "empty", "unparsable", "nonarray"}

\* C5: when the mount finds the persisted value absent or corrupt, the
\* collection is the empty array, the component does not crash and no
\* handler throws.
C5_CorruptLoadUsable ==
    boot \in CorruptKinds =>
        /\ shortcuts = JsArray(<<>>)
        /\ pc # "crashed"
        /\ lastOp.outcome # "threw"

\* C6: when the mount finds a value that JSON.parse rejects, that value
\* stays under the key until the user's first mutation.
C6_CorruptLeftUntouched ==
    boot = "unparsable" => storage = Stored(Garbage)

\* C7: when the component is idle and its last storage write succeeded, the
\* persisted value decodes to exactly the in-memory collection.
C7_StorageMatchesCollection ==
    (pc = "idle" /\ lastWrite = "ok") =>
        /\ storage.present
        /\ JSONparse(storage.text).ok
        /\ JSONparse(storage.text).value = shortcuts

\* an update of one of two shortcuts has been written
C7_Witness ==
    /\ pc = "idle"
    /\ lastWrite = "ok"
    /\ lastOp = Op("save", "updated")
    /\ Len(shortcuts.items) = 2
    /\ JSONparse(storage.text).value = shortcuts

\* C8: a failing storage write leaves the collection and the persisted value
\* as they were, sets the warning message and lets the component go on; the
\* persisted value changes in a successful write only.
C8_WriteFailureKeepsState ==
    [][ /\ (pc = "saveEffect" /\ lastWrite' = "failed")
           => /\ shortcuts' = shortcuts
              /\ queued' = queued
              /\ storage' = storage
              /\ message' = Msg("error", SaveFailedText, <<>>)
              /\ pc' \in {"idle", "render"}
        /\ storage' # storage => (pc = "saveEffect" /\ lastWrite' = "ok")
      ]_vars

\* after a failed write of a two-entry collection the persisted value is
\* stale, the warning is shown and a lookup has been answered from memory
C8_Witness ==
    /\ pc = "idle"
    /\ lastWrite = "failed"
    /\ boot = "mutated"
    /\ Len(shortcuts.items) = 2
    /\ storage # Stored(JSONstringify(shortcuts))
    /\ message = Msg("error", SaveFailedText, <<>>)
    /\ lastOp = Op("lookup", "found")

\* the selection of the last toggle
ToggledSelection == SubSeq(lastToggle.text, lastToggle.start + 1, lastToggle.end)

\* "already bold" as the specification defines it
SpecBold(sel) == StartsWith(sel, Marker) /\ EndsWith(sel, Marker) /\ Len(sel) >= 4

\* C9: a toggle of a selection that is not (starts with **, ends with **,
\* length >= 4) wraps the selection in the markers and puts the caret at
\* start + length(selected) + 2.
C9_NotBoldIsWrapped ==
    (lastToggle.done /\ ~SpecBold(ToggledSelection)) =>
        /\ lastToggle.newContent
             = SubSeq(lastToggle.text, 1, lastToggle.start)
               \o Marker \o ToggledSelection \o Marker
               \o SubSeq(lastToggle.text, lastToggle.end + 1, Len(lastToggle.text))
        /\ lastToggle.newCursorPos = lastToggle.start + Len(ToggledSelection) + 2

\* C10: a toggle of a selection that starts with **, ends with ** and has
\* length >= 4 removes the two markers and puts the caret at
\* start + length(selected) - 4.
C10_BoldIsUnwrapped ==
    (lastToggle.done /\ SpecBold(ToggledSelection)) =>
        /\ lastToggle.newContent
             = SubSeq(lastToggle.text, 1, lastToggle.start)
               \o SubSeq(ToggledSelection, 3, Len(ToggledSelection) - 2)
               \o SubSeq(lastToggle.text, lastToggle.end + 1, Len(lastToggle.text))
        /\ lastToggle.newCursorPos = lastToggle.start + Len(ToggledSelection) - 4

\* the toggle of a selected "****" inside a longer text: the interior is
\* empty and the caret is at the start of the selection
C10_Witness ==
    /\ lastToggle.done
    /\ ToggledSelection = <<"*", "*", "*", "*">>
    /\ lastToggle.start > 0
    /\ lastToggle.end < Len(lastToggle.text)
    /\ Len(lastToggle.newContent) = Len(lastToggle.text) - 4
    /\ lastToggle.newCursorPos = lastToggle.start

\* the selection of the toggle before the last one, when the last toggle was
\* applied to its span
FirstSelection ==
    SubSeq(lastToggle.first.text, lastToggle.first.start + 1, lastToggle.first.end)

\* C11: a toggle of a selection [start, end) that is not bold, followed by a
\* toggle of [start, end + 4) of the result, gives back the original text.
C11_RoundTrip ==
    (lastToggle.done /\ lastToggle.first.done /\ ~SpecBold(FirstSelection))
        => lastToggle.newContent = lastToggle.first.text

\* C12: a lookup over a collection none of whose names equals the trimmed
\* query shows the not-found text, does not throw and changes neither the
\* collection nor the storage.
C12_MissingNameNotFound ==
    [][ ( /\ \E q \in TestInputs : HandleTestInputChange(q)
          /\ IsArray(shortcuts)
          /\ IndicesOf(shortcuts.items, Trim(testInput')) = {} )
        => /\ testOutput' = NotFoundText
           /\ lastOp'.outcome # "threw"
           /\ shortcuts' = shortcuts
           /\ queued' = queued
           /\ storage' = storage
      ]_vars

\* a lookup of a query that is a proper prefix of the only stored name
C12_Witness ==
    /\ lastOp = Op("lookup", "notfound")
    /\ IsArray(shortcuts)
    /\ Len(shortcuts.items) = 1
    /\ StartsWith(shortcuts.items[1].name, Trim(testInput))
    /\ shortcuts.items[1].name # Trim(testInput)
    /\ shortcuts.items[1].content # NotFoundText
    /\ testOutput = NotFoundText

\* a clear-all is the last mutation of this mount: no save has followed it
ClearedSince == boot = "mutated" /\ ~lastSave.valid

\* a reload would start from the empty collection: nothing is stored under
\* the key, or the stored text decodes to the empty array
PersistedEmpty ==
    \/ ~storage.present
    \/ /\ JSONparse(storage.text).ok
       /\ JSONparse(storage.text).value = JsArray(<<>>)

\* C13 as stated: once a clear-all has completed, and until the next save,
\* the collection is empty, every lookup shows the not-found text and the
\* persisted value decodes to the empty collection.
C13_ClearedEverywhere ==
    (ClearedSince /\ pc = "idle") =>
        /\ shortcuts = JsArray(<<>>)
        /\ lastOp.op = "lookup" => testOutput = NotFoundText
        /\ PersistedEmpty

\* C13 as amended: after a clear-all and until the next save of this mount,
\* the committed collection is empty and every lookup shows the not-found
\* text; the persisted value decodes to the empty collection once the
\* storage write of the clear has succeeded.
C13_ClearedInMemory ==
    ClearedSince =>
        /\ pc # "render" => shortcuts = JsArray(<<>>)
        /\ lastOp.op = "lookup" => testOutput = NotFoundText
        /\ (pc = "idle" /\ lastWrite = "ok") => PersistedEmpty

\* after a clear whose write failed, the lookup of a name the stale
\* persisted value still holds shows the not-found text
C13_Witness ==
    /\ ClearedSince
    /\ pc = "idle"
    /\ lastWrite = "failed"
    /\ lastOp = Op("lookup", "notfound")
    /\ shortcuts = JsArray(<<>>)
    /\ storage.present
    /\ JSONparse(storage.text).ok
    /\ IndicesOf(JSONparse(storage.text).value.items, Trim(testInput)) # {}
    /\ testOutput = NotFoundText

\* C14: the output of a lookup that found a shortcut differs from the output
\* of a lookup that found none.
C14_NotFoundDistinguished ==
    (lastOp = Op("lookup", "found")) => testOutput # NotFoundText

\* C15: the render that commits a save appends one entry for a new name and
\* replaces the content of the one entry of an existing name; every other
\* entry keeps its name, content and index.  The collection shrinks in the
\* commit of a clear-all only.
C15_SaveChangesOnePosition ==
    [][ /\ ( /\ pc = "render"
             /\ pc' # "loadEffect"
             /\ lastOp.op = "save"
             /\ lastSave.valid
             /\ IsArray(shortcuts) )
           => LET old == shortcuts.items
                  new == shortcuts'.items
                  k == Trim(lastSave.name)
              IN  /\ IsArray(shortcuts')
                  /\ IF IndicesOf(old, k) = {}
                     THEN new = Append(old, Shortcut(k, lastSave.content))
                     ELSE /\ Len(new) = Len(old)
                          /\ \A i \in 1..Len(old) :
                               /\ new[i].name = old[i].name
                               /\ old[i].name # k => new[i] = old[i]
        /\ (Len(shortcuts'.items) < Len(shortcuts.items) /\ pc' # "loadEffect")
           => lastOp = Op("clear", "cleared")
      ]_vars

\* a new name has been appended behind the entry the storage still holds
C15_Witness ==
    /\ pc = "saveEffect"
    /\ lastOp = Op("save", "created")
    /\ Len(shortcuts.items) = 2
    /\ shortcuts.items[2] = Shortcut(Trim(lastSave.name), lastSave.content)
    /\ JSONparse(storage.text).ok
    /\ JSONparse(storage.text).value = JsArray(<<shortcuts.items[1]>>)

\* C16: the deferred caret assignment of a toggle runs when no re-render is
\* pending and the textarea already shows the content the toggle computed;
\* the caret it sets is the computed position in that content.
C16_CaretAfterCommit ==
    [][ (caretTimers # <<>> /\ caretTimers' = Tail(caretTimers))
        => /\ pc = "idle"
           /\ textarea.value = shortcutContent
           /\ textarea'.value = shortcutContent
           /\ textarea'.selectionStart
                = DomIndex(Head(caretTimers), Len(shortcutContent))
           /\ (Len(caretTimers) = 1 /\ lastToggle.done)
                => /\ textarea.value = lastToggle.newContent
                   /\ Head(caretTimers) = lastToggle.newCursorPos
      ]_vars

\* the timer of a toggle has run: the caret is at the computed position,
\* which is not the end of the text where the commit had left it
C16_Witness ==
    /\ pc = "idle"
    /\ lastToggle.done
    /\ caretTimers = <<>>
    /\ textarea.value = lastToggle.newContent
    /\ lastToggle.newContent # lastToggle.text
    /\ textarea.selectionStart = lastToggle.newCursorPos
    /\ textarea.selectionEnd = lastToggle.newCursorPos
    /\ lastToggle.newCursorPos # Len(textarea.value)

\* C17: from a mount over a stored array until the first save or clear-all,
\* no step changes the stored text.
C17_StartupKeepsStorage ==
    [][ (boot = "array" /\ boot' = "array") => storage' = storage ]_vars

\* the result of a lookup, from the indices of the entries of that name
ExpectedOutput(items, input) ==
    LET hits == IndicesOf(items, Trim(input))
    IN  IF hits = {} THEN NotFoundText
        ELSE items[CHOOSE i \in hits : \A j \in hits : i <= j].content

\* C18 as stated: whenever a test query has been entered, the test output is
\* the lookup of that query in the current collection.
C18_OutputAlwaysCurrent ==
    (pc = "idle" /\ testInput # EmptyStr /\ IsArray(shortcuts))
        => testOutput = ExpectedOutput(shortcuts.items, testInput)

\* C18 as amended: the test output is the lookup of the test query in the
\* collection as long as entering that query is the last operation; after a
\* clear-all, and until the next query, it is empty.
C18_OutputAsOfLastLookup ==
    /\ (lastOp.op = "lookup" /\ lastOp.outcome # "threw" /\ IsArray(shortcuts))
         => testOutput = ExpectedOutput(shortcuts.items, testInput)
    /\ lastOp = Op("clear", "cleared") => testOutput = EmptyStr

\* a query with a leading space has found, among two entries, the content
\* of the second
C18_Witness ==
    /\ lastOp = Op("lookup", "found")
    /\ testInput # Trim(testInput)
    /\ Len(shortcuts.items) = 2
    /\ shortcuts.items[2].name = Trim(testInput)
    /\ shortcuts.items[1].content # shortcuts.items[2].content
    /\ testOutput = shortcuts.items[2].content

\* C19: the caret position a toggle computes lies within the new text.
C19_CaretWithinText ==
    lastToggle.done =>
        /\ 0 <= lastToggle.newCursorPos
        /\ lastToggle.newCursorPos <= Len(lastToggle.newContent)

\* C20: a declined clear-all leaves the collection, the queued update, the
\* storage, the test output and the message as they were; a non-empty
\* collection becomes empty within a mount only by the commit of an accepted
\* clear-all.
C20_DeclinedClearChangesNothing ==
    [][ /\ (HandleClearAllShortcuts /\ lastOp' = Op("clear", "declined"))
           => /\ shortcuts' = shortcuts
              /\ queued' = queued
              /\ storage' = storage
              /\ testOutput' = testOutput
              /\ message' = message
              /\ pc' = pc
        /\ ( /\ shortcuts.items # <<>>
             /\ shortcuts'.items = <<>>
             /\ pc' # "loadEffect" )
           => lastOp = Op("clear", "cleared")
      ]_vars

\* a clear-all has been declined over two entries, a message and a test
\* output, with the storage holding the collection
C20_Witness ==
    /\ lastOp = Op("clear", "declined")
    /\ pc = "idle"
    /\ Len(shortcuts.items) = 2
    /\ message # NoMessage
    /\ testOutput # EmptyStr
    /\ JSONparse(storage.text).ok
    /\ JSONparse(storage.text).value = shortcuts

====
